---- MODULE Spec2Model ----
(***************************************************************************)
(* A model of atlite/cutout.py: name resolution (ensure_path), the        *)
(* Cutout constructor's four-way initialisation, the prepared_features    *)
(* property, sel, and the lazily cached grid-cell index.                   *)
(*                                                                         *)
(* Strings that the code takes apart are modelled structurally:            *)
(*   - a file or cutout name is the sequence of its dot-separated tokens,  *)
(*     "a.nc" is <<"a", "nc">>; tokens are non-empty and hold no path      *)
(*     separator;                                                          *)
(*   - a feature name is the sequence of its characters, "wi" is           *)
(*     <<"w", "i">>, so that set(<str>) is a set of one-character strings. *)
(***************************************************************************)
EXTENDS Integers, Sequences, FiniteSets, TLC

VARIABLES fs, sindex, cutouts, last

vars == <<fs, sindex, cutouts, last>>

---------------------------------------------------------------------------
(* Values *)

NoneVal == "None"

Cwd == "cwd"

Dirs == {Cwd, "d"}

\* config.cutout_dir: unset, or a directory (possibly the working directory)
CutoutDirs == {NoneVal, "d", Cwd}

NameA == <<"a">>

NameSet == {NameA, <<"a", "nc">>, <<"a", "nc", "nc">>}

FileNames == NameSet \cup {<<"a", "nc", "nc", "nc">>}

Paths == [dir : Dirs, file : FileNames]

NoPath == [dir |-> NoneVal, file |-> <<>>]

Join(d, f) == [dir |-> d, file |-> f]

\* Bounds on the number of filesystem entries that exist initially
MaxPathEntries == 3

MaxEntries == 1

---------------------------------------------------------------------------
(* pathlib and str helpers *)

\* str.endswith(".nc")
EndsWithNc(name) == Len(name) >= 2 /\ name[Len(name)] = "nc"

\* name + ".nc"
DotNc(name) == Append(name, "nc")

\* name if name.endswith(".nc") else name + ".nc"
NameNc(name) == IF EndsWithNc(name) THEN name ELSE Append(name, "nc")

\* PurePath.stem: the final component without its last suffix
Stem(file) == IF Len(file) >= 2 THEN SubSeq(file, 1, Len(file) - 1) ELSE file

\* Path.is_file() / Path.is_dir() against the filesystem
IsFile(p) == p \in DOMAIN fs /\ fs[p] = "file"

IsDir(p) == p \in DOMAIN fs /\ fs[p] = "dir"

---------------------------------------------------------------------------
(* ensure_path *)

ensure_path_dirs_first(name, has_data, cutout_dir) ==
    LET name_nc == NameNc(name)
        cwd == Cwd
    IN  IF ~has_data /\ IsDir(Join(cwd, name)) THEN Join(cwd, name)
        ELSE IF ~has_data /\ cutout_dir # NoneVal /\ IsDir(Join(cutout_dir, name))
             THEN Join(cutout_dir, name)
        ELSE IF ~has_data /\ IsFile(Join(cwd, name_nc)) THEN Join(cwd, name_nc)
        ELSE IF ~has_data /\ cutout_dir # NoneVal /\ IsFile(Join(cutout_dir, name_nc))
             THEN Join(cutout_dir, name_nc)
        ELSE IF cutout_dir # NoneVal THEN Join(cutout_dir, name_nc)
        ELSE Join(cwd, name_nc)

ensure_path_cwd_fallback(name, has_data, cutout_dir) ==
    LET name_nc == NameNc(name)
        cwd == Cwd
    IN  IF ~has_data /\ IsFile(Join(cwd, name_nc)) THEN Join(cwd, name_nc)
        ELSE IF ~has_data /\ cutout_dir # NoneVal /\ IsFile(Join(cutout_dir, name_nc))
             THEN Join(cutout_dir, name_nc)
        ELSE IF ~has_data /\ IsDir(Join(cwd, name)) THEN Join(cwd, name)
        ELSE IF ~has_data /\ cutout_dir # NoneVal /\ IsDir(Join(cutout_dir, name))
             THEN Join(cutout_dir, name)
        ELSE Join(cwd, name_nc)

ensure_path(name, has_data, cutout_dir) ==
    LET name_nc == NameNc(name)
        cwd == Cwd
    IN  IF ~has_data /\ IsFile(Join(cwd, name_nc)) THEN Join(cwd, name_nc)
        ELSE IF ~has_data /\ cutout_dir # NoneVal /\ IsFile(Join(cutout_dir, name_nc))
             THEN Join(cutout_dir, name_nc)
        ELSE IF ~has_data /\ IsDir(Join(cwd, name)) THEN Join(cwd, name)
        ELSE IF ~has_data /\ cutout_dir # NoneVal /\ IsDir(Join(cutout_dir, name))
             THEN Join(cutout_dir, name)
        ELSE IF cutout_dir # NoneVal THEN Join(cutout_dir, name_nc)
        ELSE Join(cwd, name_nc)

---------------------------------------------------------------------------
(* Datasets: the metadata bag and the two spatial axes *)

\* The prepared_features attribute: absent, a bare string, or a list of strings
PfAbsent == [kind |-> "absent", str |-> <<>>, list |-> <<>>]

PfStr(s) == [kind |-> "str", str |-> s, list |-> <<>>]

PfList(l) == [kind |-> "list", str |-> <<>>, list |-> l]

\* Feature names, as sequences of characters
Wind == <<"w", "i">>

Influx == <<"i", "n">>

EmptyParams == [k \in {} |-> 0]

NoCreation == [present |-> FALSE, value |-> EmptyParams]

Dataset(module, pf, nm, x, y) ==
    [tag |-> "Dataset",
     attrs |-> [module |-> module, prepared_features |-> pf, name |-> nm,
                creation_parameters |-> NoCreation],
     x |-> x, y |-> y]

\* data=None
NoData ==
    [tag |-> "None",
     attrs |-> [module |-> NoneVal, prepared_features |-> PfAbsent, name |-> <<>>,
                creation_parameters |-> NoCreation],
     x |-> <<>>, y |-> <<>>]

\* The coordinate axes of the stored grids
XS == <<0, 1, 2>>

YS == <<10, 11>>

\* The dataset modules found in sys.modules under atlite.datasets
LoadedModules == {"era5", "foo"}

---------------------------------------------------------------------------
(* cutoutparams: a dict, modelled as a function from its keys *)

Has(p, k) == k \in DOMAIN p

Pop(p, k) == [j \in DOMAIN p \ {k} |-> p[j]]

Put(p, k, v) == [j \in DOMAIN p \cup {k} |-> IF j = k THEN v ELSE p[j]]

Merge(p, q) == [j \in DOMAIN p \cup DOMAIN q |-> IF j \in DOMAIN q THEN q[j] ELSE p[j]]

\* slice(start, stop)
Slice(a, b) == <<a, b>>

\* "{}-{}".format(year, month): the two numbers, in this order
FormatYM(year, month) == <<year, month>>

\* if 'bounds' in cutoutparams: ... update(x=slice(x1, x2), y=slice(y1, y2))
ExpandBounds(p) ==
    IF Has(p, "bounds")
    THEN LET b == p["bounds"]
         IN  Put(Put(Pop(p, "bounds"), "x", Slice(b[1], b[3])), "y", Slice(b[2], b[4]))
    ELSE p

\* the deprecated xs and ys are renamed to x and y
RenameXsYs(p) ==
    LET p1 == IF Has(p, "xs") THEN Put(Pop(p, "xs"), "x", p["xs"]) ELSE p
    IN  IF Has(p1, "ys") THEN Put(Pop(p1, "ys"), "y", p1["ys"]) ELSE p1

CombineYearsMonthsStartMonth(p) ==
    LET months == IF Has(p, "months") THEN p["months"] ELSE Slice(1, 12)
        years == p["years"]
    IN  Put(Pop(Pop(p, "months"), "years"), "time",
            Slice(FormatYM(years[1], months[1]), FormatYM(years[2], months[1])))

\* the deprecated years (and months) become time; `years` is present
CombineYearsMonths(p) ==
    LET months == IF Has(p, "months") THEN p["months"] ELSE Slice(1, 12)
        years == p["years"]
    IN  Put(Pop(Pop(p, "months"), "years"), "time",
            Slice(FormatYM(years[1], months[1]), FormatYM(years[2], months[2])))

DeprecatedTime(p) == {"years", "months"} \cap DOMAIN p # {}

DeprecatedAxes(p) == {"xs", "ys"} \cap DOMAIN p # {}

NormalizeParamsLenient(p) ==
    LET p1 == RenameXsYs(ExpandBounds(p))
        d1 == IF DeprecatedAxes(p) THEN {"deprecated_xs_ys"} ELSE {}
    IN  IF ~DeprecatedTime(p1)
        THEN [status |-> "ok", params |-> p1, diags |-> d1]
        ELSE IF ~Has(p1, "years")
        THEN [status |-> "ok", params |-> Pop(p1, "months"),
              diags |-> d1 \cup {"deprecated_years_months"}]
        ELSE [status |-> "ok", params |-> CombineYearsMonths(p1),
              diags |-> d1 \cup {"deprecated_years_months"}]

\* Lines 101-117 as a whole; status AssertionError when months came without years
NormalizeParams(p) ==
    LET p1 == RenameXsYs(ExpandBounds(p))
        d1 == IF DeprecatedAxes(p) THEN {"deprecated_xs_ys"} ELSE {}
    IN  IF ~DeprecatedTime(p1)
        THEN [status |-> "ok", params |-> p1, diags |-> d1]
        ELSE IF ~Has(p1, "years")
        THEN [status |-> "AssertionError", params |-> p1,
              diags |-> d1 \cup {"deprecated_years_months"}]
        ELSE [status |-> "ok", params |-> CombineYearsMonths(p1),
              diags |-> d1 \cup {"deprecated_years_months"}]

---------------------------------------------------------------------------
(* Cutout objects *)

\* No GridCells object (None)
NoObj == [id |-> [i |-> 0, n |-> 0], cells |-> <<>>, src |-> "none"]

\* accessed: _grid_cells has been called on the instance; made: how many
\* GridCells objects have been made for it
CutoutObj(path, is_view, data, module) ==
    [cutout_path |-> path, is_view |-> is_view, data |-> data,
     dataset_module |-> module, grid_cells_cache |-> NoObj,
     accessed |-> FALSE, made |-> 0]

NoCutout == CutoutObj(NoPath, FALSE, NoData, NoneVal)

\* What getattr resolves on a Cutout instance while __init__ runs the
\* FreshDeclare branch: the instance attributes set so far and the class's
\* properties, methods and class attributes
CutoutAttributes ==
    {"config", "resource", "cutout_path", "is_view",
     "name", "projection", "available_features", "coords", "meta", "shape",
     "extent", "prepared", "prepared_features", "grid_coordinates",
     "_grid_cells_cache", "_grid_cells", "grid_cells", "sel", "indicatormatrix",
     "prepare", "convert_and_aggregate", "heat_demand", "temperature",
     "soil_temperature", "solar_thermal", "wind", "pv", "runoff", "hydro"}

\* Cutout.name
CutoutName(c) == Stem(c.cutout_path.file)

\* The outcome of a construction
Outcome(status, state, path, params, diags, cutout) ==
    [status |-> status, state |-> state, path |-> path, params |-> params,
     diags |-> diags, cutout |-> cutout]

\* Cutout.prepared_features: set(self.data.attrs.get("prepared_features", [])).
\* The set of a list is the set of its elements, the set of a string the set
\* of its characters.
PreparedFeatures(c) ==
    LET pf == c.data.attrs.prepared_features
    IN  IF pf.kind = "absent" THEN {}
        ELSE IF pf.kind = "list" THEN { pf.list[i] : i \in 1..Len(pf.list) }
        ELSE { <<pf.str[i]>> : i \in 1..Len(pf.str) }

FileLoadUnchecked(path, params, diags, stored) ==
    Outcome("ok", "FileLoad", path, params, diags,
            CutoutObj(path, FALSE, stored, NoneVal))

\* FileLoad, lines 123-128: `stored` is what xr.open_dataset returns (the
\* assert statement is in force: the interpreter does not run with -O)
FileLoad(path, params, diags, stored) ==
    LET prepared_features == stored.attrs.prepared_features
    IN  IF prepared_features.kind = "absent"
        THEN Outcome("AssertionError", "FileLoad", path, params, diags, NoCutout)
        ELSE LET data ==
                    IF prepared_features.kind # "list"
                    THEN [stored EXCEPT !.attrs.prepared_features =
                                            PfList(<<prepared_features.str>>)]
                    ELSE stored
             IN  Outcome("ok", "FileLoad", path, params, diags,
                         CutoutObj(path, FALSE, data, NoneVal))

\* LegacyMigrate, lines 131-132: `migrated` is what the migration routine returns
LegacyMigrate(path, params, diags, migrated) ==
    Outcome("ok", "LegacyMigrate", path, params, diags,
            CutoutObj(path, TRUE, migrated, NoneVal))

\* FreshDeclare, lines 134-144.  The log message of line 134 is an f-string
\* and reads self.name and self.cutout_dir before anything else happens.
FreshDeclare(path, params, diags) ==
    IF ~({"name", "cutout_dir"} \subseteq CutoutAttributes)
    THEN Outcome("AttributeError", "FreshDeclare", path, params, diags, NoCutout)
    ELSE IF {"x", "y", "time"} \ DOMAIN params # {}
    THEN Outcome("RuntimeError", "FreshDeclare", path, params, diags, NoCutout)
    ELSE LET module == IF Has(params, "module") THEN params["module"] ELSE "era5"
             rest == Pop(params, "module")
             d == IF Has(params, "module") THEN diags
                  ELSE diags \cup {"module_not_specified"}
             data == [tag |-> "Dataset",
                      attrs |-> [module |-> module,
                                 prepared_features |-> PfList(<<>>),
                                 name |-> <<>>,
                                 creation_parameters |->
                                     [present |-> TRUE, value |-> rest]],
                      x |-> <<>>, y |-> <<>>]
         IN  Outcome("ok", "FreshDeclare", path, rest, d,
                     CutoutObj(path, FALSE, data, NoneVal))

\* CallerSupplied, lines 145-148
CallerSupplied(path, params, diags, data) ==
    Outcome("ok", "CallerSupplied", path, params, diags,
            CutoutObj(path, TRUE, data, NoneVal))

SelectStatePathFirst(path, data, params, diags, stored, migrated) ==
    IF IsFile(path) THEN FileLoad(path, params, diags, stored)
    ELSE IF IsDir(path) THEN LegacyMigrate(path, params, diags, migrated)
    ELSE IF data.tag = "None" THEN FreshDeclare(path, params, diags)
    ELSE CallerSupplied(path, params, diags, data)

\* Lines 119-148: the branch taken on (data is None, is_file, is_dir)
SelectState(path, data, params, diags, stored, migrated) ==
    IF data.tag = "None"
    THEN IF IsFile(path) THEN FileLoad(path, params, diags, stored)
         ELSE IF IsDir(path) THEN LegacyMigrate(path, params, diags, migrated)
         ELSE FreshDeclare(path, params, diags)
    ELSE CallerSupplied(path, params, diags, data)

ReconcileDatasetWins(o) ==
    LET data == o.cutout.data
        given == Has(o.params, "module")
        attr == IF data.attrs.module # NoneVal THEN data.attrs.module
                ELSE IF given THEN o.params["module"] ELSE "era5"
        rest == Pop(o.params, "module")
    IN  IF attr \in LoadedModules
        THEN [o EXCEPT !.params = rest,
                       !.cutout.data.attrs.module = attr,
                       !.cutout.dataset_module = attr]
        ELSE Outcome("KeyError", o.state, o.path, rest, o.diags, NoCutout)

\* Lines 150-161: module reconciliation and the lookup of the dataset module
Reconcile(o) ==
    LET data == o.cutout.data
        given == Has(o.params, "module")
        module == IF given THEN o.params["module"] ELSE NoneVal
        differs == given /\ module # data.attrs.module
        missing == ~given /\ data.attrs.module = NoneVal
        attr == IF differs THEN module
                ELSE IF missing THEN "era5" ELSE data.attrs.module
        d == o.diags \cup (IF differs THEN {"module_disagrees"} ELSE {})
                     \cup (IF missing THEN {"module_fallback"} ELSE {})
        rest == Pop(o.params, "module")
    IN  IF attr \in LoadedModules
        THEN [o EXCEPT !.params = rest, !.diags = d,
                       !.cutout.data.attrs.module = attr,
                       !.cutout.dataset_module = attr]
        ELSE Outcome("KeyError", o.state, o.path, rest, d, NoCutout)

\* Cutout.__init__(name, data, config, **cutoutparams).  `arg` is what was
\* passed: a name (or None, <<>>), a dataset (or None) and whether the dataset
\* was passed in the place of the name.
CutoutInit(arg, cutout_dir, cutoutparams, stored, migrated) ==
    LET data == arg.data
        name == IF arg.as_name
                THEN (IF data.attrs.name # <<>> THEN data.attrs.name
                      ELSE <<"unnamed">>)
                ELSE arg.name
    IN  IF name = <<>>
        THEN Outcome("AttributeError", "none", NoPath, cutoutparams, {}, NoCutout)
        ELSE LET cutout_path == ensure_path(name, data.tag # "None", cutout_dir)
                 n == NormalizeParams(cutoutparams)
             IN  IF n.status # "ok"
                 THEN Outcome(n.status, "none", cutout_path, n.params, n.diags,
                              NoCutout)
                 ELSE LET o == SelectState(cutout_path, data, n.params, n.diags,
                                           stored, migrated)
                      IN  IF o.status # "ok" THEN o ELSE Reconcile(o)

---------------------------------------------------------------------------
(* Cutout.grid_coordinates, Cutout.extent and the GridCells collaborators *)

RECURSIVE Ravel(_)
\* np.ravel of a two-dimensional array given as the sequence of its rows
Ravel(rows) == IF rows = <<>> THEN <<>> ELSE Head(rows) \o Ravel(Tail(rows))

\* np.meshgrid(x, y): two arrays of Len(y) rows and Len(x) columns
MeshgridX(x, y) == [i \in 1..Len(y) |-> [j \in 1..Len(x) |-> x[j]]]

MeshgridY(x, y) == [i \in 1..Len(y) |-> [j \in 1..Len(x) |-> y[i]]]

GridCoordinatesXOuter(x, y) ==
    [k \in 1..(Len(x) * Len(y)) |->
        <<x[((k - 1) \div Len(y)) + 1], y[((k - 1) % Len(y)) + 1]>>]

\* np.asarray((np.ravel(xs), np.ravel(ys))).T
GridCoordinates(x, y) ==
    LET rx == Ravel(MeshgridX(x, y))
        ry == Ravel(MeshgridY(x, y))
    IN  [k \in 1..Len(rx) |-> <<rx[k], ry[k]>>]

\* Cutout.extent, for a dataset with both axes non-empty
Extent(c) ==
    <<c.data.x[1], c.data.x[Len(c.data.x)], c.data.y[1], c.data.y[Len(c.data.y)]>>

\* The cache artifact's place: cutout_path.parent / f"{name}.sindex.pickle"
SindexFn(c) == [dir |-> c.cutout_path.dir, name |-> CutoutName(c)]

SindexKeys == {[dir |-> Cwd, name |-> NameA]}

SindexStates == {"absent", "present"}

\* sindex_fn.exists()
SindexExists(k) == k \in DOMAIN sindex /\ sindex[k] # "absent"

\* What GridCells.from_file may do with an artifact, by its content: return
\* the pickled index (that of the stored grid), raise EOFError on truncated
\* content, pickle.UnpicklingError on corrupt content, or meet an I/O error
ReadOutcomes == {"ok", "EOFError", "OSError", "UnpicklingError"}

StoredIndexCells == GridCoordinates(XS, YS)

\* The exceptions the try block of _grid_cells catches
CaughtOnRead == {"EOFError", "OSError"}

---------------------------------------------------------------------------
(* The record of the last call: what was called, with what, and what came *)
(* of it.                                                                  *)

Call(op) ==
    [op |-> op, name |-> <<>>, has_data |-> FALSE, cutout_dir |-> NoneVal,
     path |-> NoPath, status |-> "ok", state |-> "none",
     given |-> EmptyParams, params |-> EmptyParams, source |-> NoData,
     diags |-> {}, target |-> 0, ret |-> 0, cutout |-> NoCutout, obj |-> NoObj,
     first |-> FALSE, did_read |-> FALSE, did_build |-> FALSE,
     numbers |-> <<>>, points |-> <<>>, features |-> {}, projection |-> NoneVal]

NoCall == Call("none")

\* A filesystem in which exactly `files` are files and `dirs` are directories
FsOf(files, dirs) ==
    [p \in Paths |-> IF p \in files THEN "file"
                     ELSE IF p \in dirs THEN "dir" ELSE "none"]

FsUpTo(k) ==
    { FsOf(e.files, e.dirs) :
        e \in { x \in [files : SUBSET Paths, dirs : SUBSET Paths] :
                  /\ x.files \cap x.dirs = {}
                  /\ Cardinality(x.files) + Cardinality(x.dirs) <= k } }

NoIndexFiles == [k \in SindexKeys |-> "absent"]

---------------------------------------------------------------------------
(* ensure_path on its own *)

EnsurePathCall(name, has_data, cutout_dir) ==
    /\ last' = [Call("ensure_path") EXCEPT
                    !.name = name, !.has_data = has_data,
                    !.cutout_dir = cutout_dir,
                    !.path = ensure_path(name, has_data, cutout_dir)]
    /\ UNCHANGED <<fs, sindex, cutouts>>

InitPath ==
    /\ fs \in FsUpTo(MaxPathEntries)
    /\ sindex = NoIndexFiles
    /\ cutouts = <<>>
    /\ last = NoCall

NextPath ==
    \E name \in NameSet, has_data \in BOOLEAN, cutout_dir \in CutoutDirs :
        EnsurePathCall(name, has_data, cutout_dir)

SpecPath == InitPath /\ [][NextPath]_vars

---------------------------------------------------------------------------
(* Operations on Cutout objects *)

\* How many Cutout objects the program holds on to at a time: a Cutout that is
\* returned while that many are held is dropped after the call
MaxCutouts == 1

\* The dataset a branch started from
SourceOf(o, arg, loaded) ==
    IF o.state \in {"FileLoad", "LegacyMigrate"} THEN loaded
    ELSE IF o.state = "CallerSupplied" THEN arg.data
    ELSE NoData

\* Cutout(name, data, config, **cutoutparams); `loaded` is what is read from
\* the store file or the legacy directory, when there is one
Construct(arg, cutout_dir, cutoutparams, loaded) ==
    LET o == CutoutInit(arg, cutout_dir, cutoutparams, loaded, loaded)
        kept == o.status = "ok" /\ Len(cutouts) < MaxCutouts
    IN  /\ cutouts' = IF kept THEN Append(cutouts, o.cutout) ELSE cutouts
        /\ last' = [Call("Cutout") EXCEPT
                        !.name = arg.name, !.has_data = (arg.data.tag # "None"),
                        !.cutout_dir = cutout_dir, !.path = o.path,
                        !.status = o.status, !.state = o.state,
                        !.given = cutoutparams, !.params = o.params,
                        !.source = SourceOf(o, arg, loaded),
                        !.diags = o.diags, !.cutout = o.cutout,
                        !.ret = IF kept THEN Len(cutouts) + 1 ELSE 0]
        /\ UNCHANGED <<fs, sindex>>

Min(a, b) == IF a <= b THEN a ELSE b

Max(a, b) == IF a >= b THEN a ELSE b

\* box(*bounds).buffer(buffer).bounds
BoxBufferBounds(b, buffer) ==
    <<Min(b[1], b[3]) - buffer, Min(b[2], b[4]) - buffer,
      Max(b[1], b[3]) + buffer, Max(b[2], b[4]) + buffer>>

SelKwargsUnbuffered(kwargs) ==
    IF Has(kwargs, "bounds")
    THEN LET bounds == kwargs["bounds"]
         IN  Put(Put(Pop(Pop(kwargs, "bounds"), "buffer"),
                     "x", Slice(bounds[1], bounds[3])),
                 "y", Slice(bounds[2], bounds[4]))
    ELSE kwargs

\* Lines 234-240 of sel: the selectors handed to Dataset.sel
SelKwargs(kwargs) ==
    IF Has(kwargs, "bounds")
    THEN LET buffer == IF Has(kwargs, "buffer") THEN kwargs["buffer"] ELSE 0
             given == kwargs["bounds"]
             bounds == IF buffer > 0 THEN BoxBufferBounds(given, buffer) ELSE given
         IN  Put(Put(Pop(Pop(kwargs, "bounds"), "buffer"),
                     "x", Slice(bounds[1], bounds[3])),
                 "y", Slice(bounds[2], bounds[4]))
    ELSE kwargs

Within(axis, kw, dim) ==
    IF Has(kw, dim)
    THEN SelectSeq(axis, LAMBDA v : kw[dim][1] <= v /\ v <= kw[dim][2])
    ELSE axis

\* xarray's Dataset.sel with label slices: a new dataset, the attributes kept
DatasetSel(data, kw) ==
    [data EXCEPT !.x = Within(data.x, kw, "x"), !.y = Within(data.y, kw, "y")]

SelInPlace(i, kwargs, default_dir) ==
    LET self == cutouts[i]
        kw == SelKwargs(kwargs)
    IN  /\ IF ~(DOMAIN kw \subseteq {"x", "y", "time"})
           THEN /\ cutouts' = cutouts
                /\ last' = [Call("sel") EXCEPT !.target = i, !.given = kwargs,
                                               !.status = "ValueError"]
           ELSE LET narrowed == [self EXCEPT !.data = DatasetSel(self.data, kw),
                                             !.is_view = TRUE]
                IN  /\ cutouts' = [cutouts EXCEPT ![i] = narrowed]
                    /\ last' = [Call("sel") EXCEPT
                                    !.target = i, !.given = kwargs,
                                    !.name = CutoutName(self), !.has_data = TRUE,
                                    !.cutout_dir = default_dir,
                                    !.path = self.cutout_path,
                                    !.state = "CallerSupplied",
                                    !.source = narrowed.data,
                                    !.cutout = narrowed, !.ret = i]
        /\ UNCHANGED <<fs, sindex>>

\* Cutout.sel(**kwargs); default_dir is the cutout_dir of ensure_config(None)
Sel(i, kwargs, default_dir) ==
    LET self == cutouts[i]
        kw == SelKwargs(kwargs)
    IN  /\ IF ~(DOMAIN kw \subseteq {"x", "y", "time"})
           THEN /\ cutouts' = cutouts
                /\ last' = [Call("sel") EXCEPT !.target = i, !.given = kwargs,
                                               !.status = "ValueError"]
           ELSE LET data == DatasetSel(self.data, kw)
                    arg == [name |-> CutoutName(self), data |-> data,
                            as_name |-> FALSE]
                    o == CutoutInit(arg, default_dir, EmptyParams, NoData, NoData)
                    kept == o.status = "ok" /\ Len(cutouts) < MaxCutouts
                IN  /\ cutouts' = IF kept THEN Append(cutouts, o.cutout) ELSE cutouts
                    /\ last' = [Call("sel") EXCEPT
                                    !.target = i, !.given = kwargs,
                                    !.name = arg.name, !.has_data = TRUE,
                                    !.cutout_dir = default_dir, !.path = o.path,
                                    !.status = o.status, !.state = o.state,
                                    !.params = o.params, !.source = data,
                                    !.diags = o.diags, !.cutout = o.cutout,
                                    !.ret = IF kept THEN Len(cutouts) + 1 ELSE 0]
        /\ UNCHANGED <<fs, sindex>>

\* The _grid_cells property, reached directly, through grid_cells or through
\* indicatormatrix (`via`); from_file is what GridCells.from_file does if it is
\* called.  The call record says whether this was the instance's first access
\* and whether from_file (did_read) and from_cutout (did_build) were called.
ReadsArtifact(self) ==
    /\ self.grid_cells_cache = NoObj
    /\ ~self.is_view
    /\ SindexExists(SindexFn(self))

GridCellsGetAnyInstance(i, via, from_file) ==
    LET self == cutouts[i]
        fresh == [i |-> i, n |-> self.made + 1]
        call == [Call(via) EXCEPT !.target = i, !.first = ~self.accessed]
    IN  /\ IF self.grid_cells_cache # NoObj
           THEN /\ cutouts' = [cutouts EXCEPT ![i].accessed = TRUE]
                /\ last' = [call EXCEPT !.obj = self.grid_cells_cache]
           ELSE LET try == SindexExists(SindexFn(self))
                    read == IF ~try THEN "skipped"
                            ELSE IF from_file = "skipped" THEN "ok" ELSE from_file
                IN  IF try /\ read # "ok" /\ read \notin CaughtOnRead
                    THEN /\ cutouts' = [cutouts EXCEPT ![i].accessed = TRUE]
                         /\ last' = [call EXCEPT !.status = read, !.did_read = TRUE]
                    ELSE LET grid_cells ==
                                 IF read = "ok"
                                 THEN [id |-> fresh, cells |-> StoredIndexCells,
                                       src |-> "file"]
                                 ELSE [id |-> fresh,
                                       cells |-> GridCoordinates(self.data.x, self.data.y),
                                       src |-> "built"]
                         IN  /\ cutouts' =
                                    [cutouts EXCEPT
                                        ![i].accessed = TRUE,
                                        ![i].made = @ + 1,
                                        ![i].grid_cells_cache = grid_cells]
                             /\ last' = [call EXCEPT !.obj = grid_cells,
                                                     !.did_read = try,
                                                     !.did_build = (read # "ok")]
        /\ UNCHANGED <<fs, sindex>>

GridCellsGet(i, via, from_file) ==
    LET self == cutouts[i]
        fresh == [i |-> i, n |-> self.made + 1]
        call == [Call(via) EXCEPT !.target = i, !.first = ~self.accessed]
    IN  /\ IF self.grid_cells_cache # NoObj
           THEN /\ cutouts' = [cutouts EXCEPT ![i].accessed = TRUE]
                /\ last' = [call EXCEPT !.obj = self.grid_cells_cache]
           ELSE LET try == ~self.is_view /\ SindexExists(SindexFn(self))
                    read == IF try THEN from_file ELSE "skipped"
                IN  IF try /\ read # "ok" /\ read \notin CaughtOnRead
                    THEN /\ cutouts' = [cutouts EXCEPT ![i].accessed = TRUE]
                         /\ last' = [call EXCEPT !.status = read, !.did_read = TRUE]
                    ELSE LET grid_cells ==
                                 IF read = "ok"
                                 THEN [id |-> fresh, cells |-> StoredIndexCells,
                                       src |-> "file"]
                                 ELSE [id |-> fresh,
                                       cells |-> GridCoordinates(self.data.x, self.data.y),
                                       src |-> "built"]
                         IN  /\ cutouts' =
                                    [cutouts EXCEPT
                                        ![i].accessed = TRUE,
                                        ![i].made = @ + 1,
                                        ![i].grid_cells_cache = grid_cells]
                             /\ last' = [call EXCEPT !.obj = grid_cells,
                                                     !.did_read = try,
                                                     !.did_build = (read # "ok")]
        /\ UNCHANGED <<fs, sindex>>

\* The external preparation step writes or removes a cache artifact
PrepareWritesIndex(k, content) ==
    /\ sindex[k] # content
    /\ sindex' = [sindex EXCEPT ![k] = content]
    /\ last' = Call("prepare")
    /\ UNCHANGED <<fs, cutouts>>

\* The requires_coords decorator of the coords property: the coordinates of
\* the dataset as they are
RequiresCoords(data) == data

\* The features and the projection a dataset module declares
ModuleFeatures(module) == IF module = "era5" THEN {Wind, Influx} ELSE {Wind}

ModuleProjection(module) == "latlong"

\* Cutout.available_features
AvailableFeatures(c) ==
    IF c.dataset_module # NoneVal /\ ~c.is_view
    THEN ModuleFeatures(c.dataset_module)
    ELSE {}

\* Cutout.shape
Shape(c) ==
    LET coords == RequiresCoords(c.data) IN <<Len(coords.y), Len(coords.x)>>

Properties ==
    {"name", "projection", "coords", "shape", "extent", "available_features",
     "prepared_features", "grid_coordinates"}

\* Reading a property of a Cutout, or calling grid_coordinates: the value, or
\* the IndexError of extent on an axis without values
ReadProperty(i, prop) ==
    LET self == cutouts[i]
        coords == RequiresCoords(self.data)
        call == [Call(prop) EXCEPT !.target = i]
    IN  /\ last' =
              IF prop = "name" THEN [call EXCEPT !.name = CutoutName(self)]
              ELSE IF prop = "projection"
                THEN [call EXCEPT !.projection = ModuleProjection(self.dataset_module)]
              ELSE IF prop = "coords" THEN [call EXCEPT !.source = coords]
              ELSE IF prop = "shape" THEN [call EXCEPT !.numbers = Shape(self)]
              ELSE IF prop = "extent"
                THEN IF coords.x = <<>> \/ coords.y = <<>>
                     THEN [call EXCEPT !.status = "IndexError"]
                     ELSE [call EXCEPT !.numbers = Extent(self)]
              ELSE IF prop = "available_features"
                THEN [call EXCEPT !.features = AvailableFeatures(self)]
              ELSE IF prop = "prepared_features"
                THEN [call EXCEPT !.features = PreparedFeatures(self)]
              ELSE [call EXCEPT !.points = GridCoordinates(coords.x, coords.y)]
        /\ UNCHANGED <<fs, sindex, cutouts>>

---------------------------------------------------------------------------
(* Inputs *)

\* What a store file may hold, and what the migration of a legacy directory
\* may return
LoadedContents ==
    { Dataset(m, pf, <<>>, XS, YS) :
        m \in {NoneVal, "era5"},
        pf \in {PfAbsent, PfStr(Wind), PfList(<<>>), PfList(<<Wind>>),
                PfList(<<Wind, Influx>>)} }

\* Datasets a caller may hand in
CallerDatasets ==
    { Dataset(m, pf, nm, XS, YS) :
        m \in {NoneVal, "era5"},
        pf \in {PfAbsent, PfStr(Wind), PfList(<<Wind>>)},
        nm \in {<<>>, NameA} }

Unnamed(D) == { d \in D : d.attrs.name = <<>> }

\* Cutout(name), Cutout(), Cutout(name, data), Cutout(data=data), Cutout(dataset)
CallArgs(names, datasets) ==
    { [name |-> n, data |-> d, as_name |-> FALSE] :
        n \in names \cup {<<>>}, d \in {NoData} \cup Unnamed(datasets) }
    \cup { [name |-> <<>>, data |-> d, as_name |-> TRUE] : d \in datasets }

ConfigDirs == {NoneVal, "d"}

\* What there is to read for a construction: something only where the
\* resolved path exists
Readable(arg, cutout_dir) ==
    IF arg.data.tag = "None" /\ arg.name # <<>>
       /\ LET path == ensure_path(arg.name, FALSE, cutout_dir)
          IN  IsFile(path) \/ IsDir(path)
    THEN LoadedContents
    ELSE {NoData}

SpatialChoices ==
    { EmptyParams,
      [k \in {"x"} |-> Slice(0, 2)],
      [k \in {"x", "y"} |-> IF k = "x" THEN Slice(0, 2) ELSE Slice(10, 11)],
      [k \in {"bounds"} |-> <<0, 10, 2, 11>>],
      [k \in {"bounds", "buffer"} |-> IF k = "bounds" THEN <<0, 10, 2, 11>> ELSE 1],
      [k \in {"xs", "ys"} |-> IF k = "xs" THEN Slice(0, 2) ELSE Slice(10, 11)] }

TimeChoices ==
    { EmptyParams,
      [k \in {"time"} |-> Slice(FormatYM(2010, 1), FormatYM(2012, 12))],
      [k \in {"years"} |-> Slice(2010, 2012)],
      [k \in {"years", "months"} |-> IF k = "years" THEN Slice(2010, 2012)
                                     ELSE Slice(3, 9)],
      [k \in {"months"} |-> Slice(3, 9)] }

ModuleChoices ==
    { EmptyParams } \cup { [k \in {"module"} |-> m] : m \in {"era5", "foo", "bogus"} }

ParamChoices ==
    { Merge(Merge(s, t), m) :
        s \in SpatialChoices, t \in TimeChoices, m \in ModuleChoices }

SelChoices ==
    { EmptyParams,
      [k \in {"x"} |-> Slice(1, 2)],
      [k \in {"bounds"} |-> <<1, 10, 2, 11>>],
      [k \in {"bounds", "buffer"} |-> IF k = "bounds" THEN <<1, 10, 1, 10>> ELSE 1],
      [k \in {"buffer"} |-> 1] }

Vias == {"_grid_cells", "grid_cells", "indicatormatrix"}

---------------------------------------------------------------------------
(* Specifications *)

\* One construction, over every input
ConstructNames == {NameA, <<"a", "nc">>}

ConstructPaths == [dir : Dirs, file : ConstructNames]

InitConstruct ==
    /\ fs \in { f \in FsUpTo(MaxEntries) :
                  \A p \in Paths \ ConstructPaths : f[p] = "none" }
    /\ sindex = NoIndexFiles
    /\ cutouts = <<>>
    /\ last = NoCall

NextConstruct ==
    /\ last = NoCall
    /\ \E arg \in CallArgs(ConstructNames, CallerDatasets), cutout_dir \in ConfigDirs :
         \E p \in ParamChoices, loaded \in Readable(arg, cutout_dir) :
            Construct(arg, cutout_dir, p, loaded)

SpecConstruct == InitConstruct /\ [][NextConstruct]_vars

\* Cutouts are constructed, subset and asked for their grid cells, under the
\* default configuration
\* cutout_dir of the default configuration, which sel's new Cutout gets
DefaultCutoutDir == NoneVal

LifeNames == {NameA, <<"a", "nc", "nc">>}

LifeDatasets == {Dataset("era5", PfList(<<Wind>>), <<>>, XS, YS)}

LifeFilesystems ==
    { FsOf({}, {}),
      FsOf({Join(Cwd, <<"a", "nc">>)}, {}),
      FsOf({}, {Join(Cwd, NameA)}) }

Init ==
    /\ fs \in LifeFilesystems
    /\ sindex \in [SindexKeys -> SindexStates]
    /\ cutouts = <<>>
    /\ last = NoCall

Next ==
    \/ \E arg \in CallArgs(LifeNames, LifeDatasets) :
          \E loaded \in Readable(arg, DefaultCutoutDir) \cap ({NoData} \cup LifeDatasets) :
             Construct(arg, DefaultCutoutDir, EmptyParams, loaded)
    \/ \E i \in 1..Len(cutouts), kwargs \in SelChoices :
           Sel(i, kwargs, DefaultCutoutDir)
    \/ \E i \in 1..Len(cutouts), via \in Vias :
          \E from_file \in (IF ReadsArtifact(cutouts[i]) THEN ReadOutcomes
                             ELSE {"skipped"}) :
             GridCellsGet(i, via, from_file)
    \/ \E i \in 1..Len(cutouts), prop \in Properties :
           ReadProperty(i, prop)
    \/ \E k \in SindexKeys, content \in SindexStates :
           PrepareWritesIndex(k, content)

Spec == Init /\ [][Next]_vars

---------------------------------------------------------------------------
(* The selectors of sel and grid_coordinates as functions of their inputs *)

\* Coordinates of the bounding boxes run over 0..MaxCoord, buffers over
\* 0..MaxBuffer, the axes of a grid have up to MaxAxis values
MaxCoord == 2

MaxBuffer == 2

MaxAxis == 3

\* bounds=(x1, y1, x2, y2) with x1 <= x2 and y1 <= y2
Boxes ==
    { <<x1, y1, x2, y2>> : x1 \in 0..MaxCoord, y1 \in 0..MaxCoord,
                           x2 \in 0..MaxCoord, y2 \in 0..MaxCoord }

OrderedBoxes == { b \in Boxes : b[1] <= b[3] /\ b[2] <= b[4] }

BoundsKwargs ==
    { [k \in {"bounds"} |-> b] : b \in OrderedBoxes }
    \cup { [k \in {"bounds", "buffer"} |-> IF k = "bounds" THEN e[1] ELSE e[2]] :
             e \in OrderedBoxes \X (0..MaxBuffer) }

\* Axes of m x-values 0, 1, ... and n y-values 10, 11, ...
XAxis(m) == [j \in 1..m |-> j - 1]

YAxis(n) == [i \in 1..n |-> 9 + i]

\* Lines 234-240 of sel on their own: the selectors handed to Dataset.sel
SelKwargsCall(kwargs) ==
    /\ last' = [Call("sel_kwargs") EXCEPT !.given = kwargs,
                                          !.params = SelKwargs(kwargs)]
    /\ UNCHANGED <<fs, sindex, cutouts>>

\* grid_coordinates of a Cutout with the axes x and y
GridCoordinatesCall(x, y) ==
    /\ last' = [Call("grid_coordinates") EXCEPT
                    !.source = Dataset(NoneVal, PfAbsent, <<>>, x, y),
                    !.points = GridCoordinates(x, y)]
    /\ UNCHANGED <<fs, sindex, cutouts>>

InitFunctions ==
    /\ fs = FsOf({}, {})
    /\ sindex = NoIndexFiles
    /\ cutouts = <<>>
    /\ last = NoCall

NextFunctions ==
    \/ \E kwargs \in BoundsKwargs : SelKwargsCall(kwargs)
    \/ \E m \in 0..MaxAxis, n \in 0..MaxAxis : GridCoordinatesCall(XAxis(m), YAxis(n))

SpecFunctions == InitFunctions /\ [][NextFunctions]_vars

---------------------------------------------------------------------------
(* Claims about ensure_path, checked under SpecPath *)

\* The four candidates of the lookup in priority order, `nc` being the file
\* name looked for with the nc suffix
Candidates(nc, name, cutout_dir) ==
    << [path |-> Join(Cwd, nc), kind |-> "file"],
       [path |-> Join(cutout_dir, nc), kind |-> "file"],
       [path |-> Join(Cwd, name), kind |-> "dir"],
       [path |-> Join(cutout_dir, name), kind |-> "dir"] >>

Exists(c) == c.path \in DOMAIN fs /\ fs[c.path] = c.kind

AnyExists(cands) == \E i \in 1..Len(cands) : Exists(cands[i])

FirstExistingIs(cands, p) ==
    \E i \in 1..Len(cands) :
        /\ Exists(cands[i])
        /\ cands[i].path = p
        /\ \A j \in 1..(i - 1) : ~Exists(cands[j])

LookupCall == last.op = "ensure_path" /\ ~last.has_data

\* C1 (as amended): without in-memory data ensure_path returns the first
\* existing candidate in the order file <cwd>/n', file <d>/n', directory
\* <cwd>/n, directory <d>/n, where n' is n itself when n already ends in ".nc"
\* and n + ".nc" otherwise.
C1_FirstExistingCandidate ==
    LET cands == Candidates(NameNc(last.name), last.name, last.cutout_dir)
    IN  (LookupCall /\ AnyExists(cands)) => FirstExistingIs(cands, last.path)

\* C1 as stated: the file candidates are literally <cwd>/n.nc and <d>/n.nc
\* for every name n.
C1_Original ==
    LET cands == Candidates(DotNc(last.name), last.name, last.cutout_dir)
    IN  (LookupCall /\ AnyExists(cands)) => FirstExistingIs(cands, last.path)

\* The file in the working directory wins over a file and a directory in the
\* configured directory.
C1_Witness ==
    /\ LookupCall
    /\ last.name = NameA
    /\ last.cutout_dir = "d"
    /\ IsFile(Join(Cwd, NameNc(NameA)))
    /\ IsFile(Join("d", NameNc(NameA)))
    /\ IsDir(Join("d", NameA))
    /\ last.path = Join(Cwd, NameNc(NameA))

FallbackCase ==
    /\ last.op = "ensure_path"
    /\ \/ last.has_data
       \/ ~AnyExists(Candidates(NameNc(last.name), last.name, last.cutout_dir))

FallbackDir == IF last.cutout_dir # NoneVal THEN last.cutout_dir ELSE Cwd

---------------------------------------------------------------------------
(* Claims about the constructor, checked under SpecConstruct *)

Constructing == last.op = "Cutout"

\* The construction got as far as the choice of the branch: the name was
\* there to resolve and the deprecated parameters were in order
ReachedSelection ==
    /\ Constructing
    /\ last.path # NoPath
    /\ ~(DeprecatedTime(last.given) /\ ~Has(last.given, "years"))

PathIsFile == IsFile(last.path)

PathIsDir == IsDir(last.path)

InFileLoad == ReachedSelection /\ ~last.has_data /\ PathIsFile

InLegacyMigrate == ReachedSelection /\ ~last.has_data /\ ~PathIsFile /\ PathIsDir

InFreshDeclare == ReachedSelection /\ ~last.has_data /\ ~PathIsFile /\ ~PathIsDir

InCallerSupplied == ReachedSelection /\ last.has_data

Constructed == Constructing /\ last.status = "ok"

\* C3: on every combination of (data supplied, path is a file, path is a
\* directory) the construction enters exactly the one state the table gives:
\* FileLoad, LegacyMigrate, FreshDeclare or CallerSupplied; a constructed
\* Cutout has is_view = false in FileLoad and FreshDeclare and is_view = true
\* in LegacyMigrate and CallerSupplied.
C3_ExactlyOneState ==
    ReachedSelection =>
        /\ last.state \in {"FileLoad", "LegacyMigrate", "FreshDeclare", "CallerSupplied"}
        /\ last.state = "FileLoad" <=> InFileLoad
        /\ last.state = "LegacyMigrate" <=> InLegacyMigrate
        /\ last.state = "FreshDeclare" <=> InFreshDeclare
        /\ last.state = "CallerSupplied" <=> InCallerSupplied
        /\ last.status = "ok" =>
              last.cutout.is_view = (last.state \in {"LegacyMigrate", "CallerSupplied"})

\* A legacy directory was migrated: the Cutout is a view.
C3_Witness ==
    /\ InLegacyMigrate
    /\ last.state = "LegacyMigrate"
    /\ last.status = "ok"
    /\ last.cutout.is_view
    /\ cutouts = <<last.cutout>>

\* The parameters as lines 101-117 leave them
Normalized == NormalizeParams(last.given).params

GivenModuleLoads ==
    Has(last.given, "module") => last.given["module"] \in LoadedModules

\* C4: in FreshDeclare, with x, y and time among the parameters, the
\* construction completes; the dataset has an empty prepared_features list,
\* creation_parameters is the string form of the parameters without module,
\* module is the given module or 'era5', and is_view = false.
C4_FreshDeclareCompletes ==
    (InFreshDeclare /\ {"x", "y", "time"} \subseteq DOMAIN Normalized
                    /\ GivenModuleLoads)
    => /\ last.status = "ok"
       /\ last.cutout.data.attrs.prepared_features = PfList(<<>>)
       /\ last.cutout.data.attrs.creation_parameters =
              [present |-> TRUE, value |-> Pop(Normalized, "module")]
       /\ last.cutout.data.attrs.module =
              (IF Has(last.given, "module") THEN last.given["module"] ELSE "era5")
       /\ ~last.cutout.is_view

\* C5: in FreshDeclare, with any of x, y, time missing after normalisation, the
\* construction raises the RuntimeError that names x, y and time, and no
\* Cutout is returned.
C5_MissingAxesRuntimeError ==
    (InFreshDeclare /\ {"x", "y", "time"} \ DOMAIN Normalized # {})
    => /\ last.status = "RuntimeError"
       /\ last.cutout = NoCutout
       /\ cutouts = <<>>

\* C6: in FileLoad, a store without the prepared_features attribute fails the
\* construction with an AssertionError and no Cutout is returned; with the
\* attribute present the construction does not fail on it.
C6_PreparedFeaturesRequired ==
    InFileLoad =>
        IF last.source.attrs.prepared_features.kind = "absent"
        THEN /\ last.status = "AssertionError"
             /\ last.cutout = NoCutout
             /\ last.ret = 0
             /\ cutouts = <<>>
        ELSE last.status # "AssertionError"

C6_Witness ==
    /\ InFileLoad
    /\ last.source.attrs.prepared_features.kind = "absent"
    /\ last.status = "AssertionError"
    /\ cutouts = <<>>

ModuleDiags == {"module_disagrees", "module_fallback"}

\* C7: of a constructed Cutout: a module m among the parameters is the
\* dataset's module attribute and its dataset_module, with a diagnostic exactly
\* when m differs from the module recorded on the dataset; without one the
\* dataset's recorded module is used; with neither, 'era5' with a diagnostic.
C7_ModuleReconciliation ==
    Constructed =>
        LET recorded == last.source.attrs.module
            attr == last.cutout.data.attrs.module
        IN  /\ attr = last.cutout.dataset_module
            /\ Has(last.given, "module") =>
                  /\ attr = last.given["module"]
                  /\ "module_disagrees" \in last.diags
                        <=> last.given["module"] # recorded
                  /\ "module_fallback" \notin last.diags
            /\ (~Has(last.given, "module") /\ recorded # NoneVal) =>
                  /\ attr = recorded
                  /\ last.diags \cap ModuleDiags = {}
            /\ (~Has(last.given, "module") /\ recorded = NoneVal) =>
                  /\ attr = "era5"
                  /\ "module_fallback" \in last.diags

\* module="foo" against a store that carries module="era5"
C7_Witness ==
    /\ Constructed
    /\ InFileLoad
    /\ Has(last.given, "module")
    /\ last.given["module"] = "foo"
    /\ last.source.attrs.module = "era5"
    /\ last.cutout.dataset_module = "foo"
    /\ last.cutout.data.attrs.module = "foo"
    /\ "module_disagrees" \in last.diags

\* C8: of a Cutout loaded from a store file: prepared_features stored as the
\* bare string s becomes the list [s] and the property is {s}; stored as a
\* list, the property is the set of the list's elements.
C8_BareStringNormalized ==
    (Constructed /\ InFileLoad) =>
        LET stored == last.source.attrs.prepared_features
        IN  /\ stored.kind = "str" =>
                  /\ last.cutout.data.attrs.prepared_features = PfList(<<stored.str>>)
                  /\ PreparedFeatures(last.cutout) = {stored.str}
            /\ stored.kind = "list" =>
                  PreparedFeatures(last.cutout) =
                      { stored.list[i] : i \in 1..Len(stored.list) }

C8_Witness ==
    /\ Constructed
    /\ InFileLoad
    /\ last.source.attrs.prepared_features = PfStr(Wind)
    /\ PreparedFeatures(last.cutout) = {Wind}

---------------------------------------------------------------------------
(* Claims about sel and the grid-cell index, checked under Spec *)

\* C9: sel does not mutate the receiver (its extent, dataset, cutout_path,
\* is_view and cache slot are after the call what they were before) nor any
\* other Cutout, and returns a new, distinct Cutout with is_view = true and
\* the same name as the receiver.
C9_SelReturnsNamedView ==
    [][ last'.op = "sel" =>
          /\ \A j \in 1..Len(cutouts) : cutouts'[j] = cutouts[j]
          /\ Extent(cutouts'[last'.target]) = Extent(cutouts[last'.target])
          /\ last'.status = "ok" =>
                /\ last'.cutout.is_view
                /\ last'.ret # last'.target
                /\ CutoutName(last'.cutout) = CutoutName(cutouts[last'.target]) ]_vars

Accessing == last.op \in Vias

\* C10: on one instance every access to _grid_cells returns the identical
\* object; the artifact is read and the index is built only during the first
\* access; the cache slot is written at most once and never reset.
C10_Memoized ==
    /\ \A i \in 1..Len(cutouts) :
          /\ cutouts[i].made <= 1
          /\ cutouts[i].made = 1 => cutouts[i].grid_cells_cache # NoObj
          /\ cutouts[i].made = 0 => cutouts[i].grid_cells_cache = NoObj
    /\ Accessing =>
          /\ last.status = "ok"
          /\ last.obj # NoObj
          /\ last.obj = cutouts[last.target].grid_cells_cache
    /\ (Accessing /\ ~last.first) => (~last.did_read /\ ~last.did_build)

\* The last access called GridCells.from_file and did not get an index from it
ReadFailed ==
    /\ Accessing
    /\ last.did_read
    /\ ~(last.status = "ok" /\ last.obj.src = "file")

\* C11: of a non-view Cutout whose artifact exists: a failure to deserialize
\* the artifact (corrupt or truncated content, any I/O error) is not
\* propagated to the caller of _grid_cells; the index is rebuilt from the
\* coordinate grid, stored in the cache slot and returned, with the content of
\* an uncached build.
C11_ReadFailureRebuilds ==
    ReadFailed =>
        LET self == cutouts[last.target]
        IN  /\ last.status = "ok"
            /\ last.did_build
            /\ last.obj.src = "built"
            /\ last.obj.cells = GridCoordinates(self.data.x, self.data.y)
            /\ self.grid_cells_cache = last.obj

\* C12: a Cutout with is_view = true never reads the cache artifact, even when
\* an artifact named after it exists next to its path: its index is built from
\* its own coordinate grid.  No access to _grid_cells, grid_cells or
\* indicatormatrix, on a view or a non-view, writes or deletes the artifact.
C12_ViewsNeverRead ==
    [][ last'.op \in Vias =>
          /\ sindex' = sindex
          /\ fs' = fs
          /\ cutouts[last'.target].is_view =>
                /\ ~last'.did_read
                /\ last'.status = "ok"
                /\ last'.obj.src = "built"
                /\ last'.obj.cells =
                      GridCoordinates(cutouts[last'.target].data.x,
                                      cutouts[last'.target].data.y) ]_vars

\* A view named after an existing artifact was asked for its grid cells for
\* the first time and built them
C12_Witness ==
    /\ Accessing
    /\ last.first
    /\ cutouts[last.target].is_view
    /\ SindexExists(SindexFn(cutouts[last.target]))
    /\ ~last.did_read
    /\ last.did_build
    /\ last.obj.src = "built"

---------------------------------------------------------------------------
(* Claims about the parameters of a construction, checked under SpecConstruct *)

\* The name was there to resolve, so the parameters were looked at
ParamsSeen == Constructing /\ last.path # NoPath

GivenMonths == IF Has(last.given, "months") THEN last.given["months"] ELSE Slice(1, 12)

\* time=slice("a-m1", "b-m2") for the given years=slice(a, b), months=slice(m1, m2)
DirectTime ==
    Slice(FormatYM(last.given["years"][1], GivenMonths[1]),
          FormatYM(last.given["years"][2], GivenMonths[2]))

\* C13: years=slice(a,b) with optional months=slice(m1,m2), by default
\* slice(1,12), gives the time parameter that time=slice("a-m1","b-m2") gives
\* directly; years and months are removed from the parameters; months without
\* years fails the construction.
C13_DeprecatedTime ==
    ParamsSeen =>
        /\ Has(last.given, "years") =>
              /\ Has(last.params, "time")
              /\ last.params["time"] = DirectTime
              /\ DOMAIN last.params \cap {"years", "months"} = {}
              /\ "deprecated_years_months" \in last.diags
        /\ (Has(last.given, "months") /\ ~Has(last.given, "years")) =>
              /\ last.status = "AssertionError"
              /\ last.cutout = NoCutout
              /\ cutouts = <<>>

\* years=slice(2010,2012) alone became time=slice("2010-1","2012-12")
C13_Witness ==
    /\ Constructed
    /\ Has(last.given, "years")
    /\ ~Has(last.given, "months")
    /\ last.given["years"] = Slice(2010, 2012)
    /\ last.params["time"] = Slice(FormatYM(2010, 1), FormatYM(2012, 12))
    /\ cutouts = <<last.cutout>>

GivenBuffer == IF Has(last.given, "buffer") THEN last.given["buffer"] ELSE 0

\* The bounding box the x and y ranges are to come from
GivenBox ==
    IF GivenBuffer > 0 THEN BoxBufferBounds(last.given["bounds"], GivenBuffer)
    ELSE last.given["bounds"]

\* C14: bounds=(x1,y1,x2,y2) is replaced by x=slice(x1,x2) and y=slice(y1,y2)
\* and so meets the x/y requirement of FreshDeclare; with a buffer margin
\* b > 0 the box is expanded by b before it is split, so x and y are the
\* ranges of the buffered box.
C14_BoundsBuffered ==
    (ParamsSeen /\ Has(last.given, "bounds")) =>
        /\ "bounds" \notin DOMAIN last.params
        /\ Has(last.params, "x") /\ Has(last.params, "y")
        /\ last.params["x"] = Slice(GivenBox[1], GivenBox[3])
        /\ last.params["y"] = Slice(GivenBox[2], GivenBox[4])
        /\ (InFreshDeclare /\ Has(last.params, "time")) =>
              last.status # "RuntimeError"

---------------------------------------------------------------------------
(* Claims about the selectors of sel and about grid_coordinates, checked *)
(* under SpecFunctions                                                    *)

SelectorsDerived == last.op = "sel_kwargs" /\ Has(last.given, "bounds")

GridComputed == last.op = "grid_coordinates"

\* C18: grid_coordinates returns one (x, y) point per element of the cross
\* product of the axes, row-major with y outer and x inner: with x values
\* X[0..m-1] and y values Y[0..n-1] there are m*n rows and row k is
\* (X[k mod m], Y[k div m]).
C18_RowMajorYOuter ==
    GridComputed =>
        LET X == last.source.x
            Y == last.source.y
            m == Len(X)
            n == Len(Y)
        IN  /\ Len(last.points) = m * n
            /\ \A k \in 0..(m * n - 1) :
                  last.points[k + 1] = <<X[(k % m) + 1], Y[(k \div m) + 1]>>

\* Three x values and two y values: six points, the x values running first
C18_Witness ==
    /\ GridComputed
    /\ last.source.x = <<0, 1, 2>>
    /\ last.source.y = <<10, 11>>
    /\ last.points = << <<0, 10>>, <<1, 10>>, <<2, 10>>,
                        <<0, 11>>, <<1, 11>>, <<2, 11>> >>

MonthsAlone == Has(last.given, "months") /\ ~Has(last.given, "years")

\* The module the constructed Cutout is to have
EffectiveModule ==
    IF Has(last.given, "module") THEN last.given["module"]
    ELSE IF last.source.attrs.module # NoneVal THEN last.source.attrs.module
    ELSE "era5"

\* The states other than FreshDeclare, FileLoad only with the attribute there
LoadsOrWraps ==
    \/ InLegacyMigrate
    \/ InCallerSupplied
    \/ InFileLoad /\ last.source.attrs.prepared_features.kind # "absent"

NothingConstructed == last.cutout = NoCutout /\ last.ret = 0 /\ cutouts = <<>>

---------------------------------------------------------------------------
(* Claims about the operations on a constructed Cutout, checked under Spec *)

\* The part of a Cutout other than its grid-cell cache slot
Identity(c) ==
    [is_view |-> c.is_view, cutout_path |-> c.cutout_path, data |-> c.data,
     dataset_module |-> c.dataset_module]

SelReturned == last.op = "sel" /\ last.status = "ok"

\* C17: under every sequence of property reads, grid_coordinates, sel,
\* grid_cells and indicatormatrix the is_view, cutout_path, dataset and module
\* of an instance never change; only its grid-cell cache slot changes, from
\* empty to populated, at most once.  In particular is_view stays true.
C17_OnlyTheCacheSlotChanges ==
    [][ /\ Len(cutouts) <= Len(cutouts')
        /\ \A j \in 1..Len(cutouts) :
              /\ Identity(cutouts'[j]) = Identity(cutouts[j])
              /\ cutouts[j].is_view => cutouts'[j].is_view
              /\ cutouts[j].grid_cells_cache # NoObj =>
                    cutouts'[j].grid_cells_cache = cutouts[j].grid_cells_cache
              /\ cutouts'[j].made <= 1 ]_vars

\* A Cutout loaded from a store file was subset by sel after its grid cells
\* had been built: its slot is populated, and it is still no view with its
\* full extent
C17_Witness ==
    /\ SelReturned
    /\ last.cutout.is_view
    /\ Extent(last.cutout) # Extent(cutouts[last.target])
    /\ ~cutouts[last.target].is_view
    /\ cutouts[last.target].grid_cells_cache # NoObj
    /\ cutouts[last.target].made = 1
    /\ Extent(cutouts[last.target]) = <<0, 2, 10, 11>>

---------------------------------------------------------------------------
(* Claims about the path and the branch of a construction, checked under *)
(* SpecConstruct                                                          *)

\* A construction that looked its name up on the filesystem
LookedUp == ParamsSeen /\ ~last.has_data

LookupCandidates == Candidates(NameNc(last.name), last.name, last.cutout_dir)

\* The candidate of the given kind that the lookup returned
Matched(kind) ==
    \E i \in 1..Len(LookupCandidates) :
        /\ LookupCandidates[i].kind = kind
        /\ Exists(LookupCandidates[i])
        /\ \A j \in 1..(i - 1) : ~Exists(LookupCandidates[j])

\* C19: when ensure_path, called without in-memory data, returns its fallback
\* path (none of the four candidates matched), nothing exists at that path,
\* neither file nor directory, and the loader enters FreshDeclare; a matched
\* file candidate leads to FileLoad and a matched directory to LegacyMigrate.
C19_FallbackIsFresh ==
    LookedUp =>
        /\ ~AnyExists(LookupCandidates) =>
              /\ ~PathIsFile
              /\ ~PathIsDir
              /\ ReachedSelection => last.state = "FreshDeclare"
        /\ (Matched("file") /\ ReachedSelection) => last.state = "FileLoad"
        /\ (Matched("dir") /\ ReachedSelection) => last.state = "LegacyMigrate"

\* The whole feature names a prepared_features attribute records
WholeNames(pf) ==
    IF pf.kind = "absent" THEN {}
    ELSE IF pf.kind = "str" THEN {pf.str}
    ELSE { pf.list[i] : i \in 1..Len(pf.list) }

\* C20: in each of the four states, a caller-supplied dataset included, the
\* prepared_features property is the set of whole feature names the dataset's
\* metadata records: the empty set for an absent attribute (which does not
\* fail the construction outside FileLoad), {s} for a single string s, never
\* the set of the characters of s.
C20_WholeFeatureNames ==
    /\ Constructed =>
          PreparedFeatures(last.cutout) =
              WholeNames(last.source.attrs.prepared_features)
    /\ (ReachedSelection /\ ~InFileLoad
           /\ last.source.attrs.prepared_features.kind = "absent") =>
          last.status # "AssertionError"

====
